---- MODULE Spec2Model ----
(***************************************************************************)
(* Model of em_visualizer_complete.py: the POST /visualize handler, the    *)
(* configuration generator and the renderers' observable effects.          *)
(*                                                                         *)
(* Numbers.  Python floats are modelled as exact real numbers of the form  *)
(*     (n / d) * pi^j                                                      *)
(* with n an integer and d a positive integer of unbounded size and pi the *)
(* symbol for np.pi.  The operators + - * / are exact; floating-point      *)
(* rounding is not modelled.  The library functions np.sqrt, np.sin,       *)
(* np.cos and np.arcsin return their value rounded to the nearest multiple *)
(* of 1 / FixedScale.                                                      *)
(***************************************************************************)
EXTENDS Integers, Sequences, FiniteSets, TLC

(***************************************************************************)
(* Unbounded naturals: little-endian sequences of limbs in base LimbBase,  *)
(* without leading zero limbs; <<>> is zero.                               *)
(***************************************************************************)
LimbBase == 10000

\* requests are accepted while fewer than MaxOpenFigures figures are open
MaxOpenFigures == 2

RECURSIVE MagFromNat(_)
MagFromNat(k) ==
    IF k = 0 THEN <<>> ELSE <<k % LimbBase>> \o MagFromNat(k \div LimbBase)

\* limb i of a, zero beyond its length
MagLimb(a, i) == IF i <= Len(a) THEN a[i] ELSE 0

\* a without its leading zero limbs
MagStrip(a) ==
    LET n == Len(a)
    IN  IF n = 0 \/ a[n] # 0 THEN a
        ELSE IF \A i \in 1..n : a[i] = 0 THEN <<>>
        ELSE SubSeq(a, 1, CHOOSE i \in 1..n :
                              a[i] # 0 /\ \A j \in (i + 1)..n : a[j] = 0)

\* the carry into limb i of a + b
RECURSIVE MagCarry(_, _, _)
MagCarry(a, b, i) ==
    IF i = 1 THEN 0
    ELSE LET s == MagLimb(a, i - 1) + MagLimb(b, i - 1)
         IN  IF s >= LimbBase THEN 1
             ELSE IF s < LimbBase - 1 THEN 0
             ELSE MagCarry(a, b, i - 1)

MagAdd(a, b) ==
    LET n == IF Len(a) > Len(b) THEN Len(a) ELSE Len(b)
    IN  (<<>> \o [i \in 1..n |->
                     (MagLimb(a, i) + MagLimb(b, i) + MagCarry(a, b, i)) % LimbBase])
        \o (IF MagCarry(a, b, n + 1) = 1 THEN <<1>> ELSE <<>>)

\* -1, 0, 1 as a < b, a = b, a > b
MagCmp(a, b) ==
    IF Len(a) < Len(b) THEN -1
    ELSE IF Len(a) > Len(b) THEN 1
    ELSE IF a = b THEN 0
    ELSE LET n == Len(a)
             i == CHOOSE k \in 1..n :
                      a[k] # b[k] /\ \A j \in (k + 1)..n : a[j] = b[j]
         IN  IF a[i] < b[i] THEN -1 ELSE 1

\* the borrow from limb i of a - b
RECURSIVE MagBorrow(_, _, _)
MagBorrow(a, b, i) ==
    IF i = 1 THEN 0
    ELSE LET t == a[i - 1] - MagLimb(b, i - 1)
         IN  IF t < 0 THEN 1
             ELSE IF t > 0 THEN 0
             ELSE MagBorrow(a, b, i - 1)

\* a - b for a >= b
MagSub(a, b) ==
    MagStrip(<<>> \o [i \in 1..Len(a) |->
        (a[i] - MagLimb(b, i) - MagBorrow(a, b, i) + LimbBase) % LimbBase])

\* a * k for one limb k
MagMulLimb(a, k) ==
    MagStrip(MagAdd(<<>> \o [i \in 1..Len(a) |-> (a[i] * k) % LimbBase],
                    <<0>> \o [i \in 1..Len(a) |-> (a[i] * k) \div LimbBase]))

\* a * LimbBase^k
MagShift(a, k) == IF a = <<>> THEN <<>> ELSE [i \in 1..k |-> 0] \o a

\* a times the limbs lo..hi of b, in place
RECURSIVE MagMulRange(_, _, _, _)
MagMulRange(a, b, lo, hi) ==
    IF lo = hi
    THEN (IF b[lo] = 0 THEN <<>> ELSE MagShift(MagMulLimb(a, b[lo]), lo - 1))
    ELSE LET mid == (lo + hi) \div 2
         IN  MagAdd(MagMulRange(a, b, lo, mid), MagMulRange(a, b, mid + 1, hi))

MagMul(a, b) ==
    IF a = <<>> \/ b = <<>> THEN <<>> ELSE MagMulRange(a, b, 1, Len(b))

(***************************************************************************)
(* Real numbers (n / d) * pi^j: sign s, numerator magnitude n, denominator *)
(* magnitude d, exponent pi of the symbol for np.pi.  Fractions are not    *)
(* kept in lowest terms, so equality of values is Eq, not =.               *)
(***************************************************************************)
Sign(k) == IF k < 0 THEN -1 ELSE IF k = 0 THEN 0 ELSE 1
Abs(k) == IF k < 0 THEN -k ELSE k

Real(s, n, d, pe) == [s |-> IF n = <<>> THEN 0 ELSE s, n |-> n, d |-> d, pi |-> pe]

\* the rational number k / m, m > 0
Frac(k, m) == Real(Sign(k), MagFromNat(Abs(k)), MagFromNat(m), 0)
Num(k) == Frac(k, 1)

Zero == Num(0)
One == Num(1)

SameUnit(x, y) == (x.s = 0) \/ (y.s = 0) \/ (x.pi = y.pi)

Mul(x, y) ==
    Real(x.s * y.s, MagMul(x.n, y.n), MagMul(x.d, y.d), x.pi + y.pi)

\* x / y for y # 0
Div(x, y) ==
    IF x.d = y.d
    THEN Real(x.s * y.s, x.n, y.n, x.pi - y.pi)
    ELSE Real(x.s * y.s, MagMul(x.n, y.d), MagMul(x.d, y.n), x.pi - y.pi)

Neg(x) == [x EXCEPT !.s = -x.s]

\* sx * a / d + sy * b / d for the signs sx, sy # 0 and the magnitudes a, b
AddOver(sx, sy, a, b, d, pe) ==
    IF sx = sy THEN Real(sx, MagAdd(a, b), d, pe)
    ELSE IF MagCmp(a, b) = 0 THEN Real(0, <<>>, d, pe)
    ELSE IF MagCmp(a, b) > 0 THEN Real(sx, MagSub(a, b), d, pe)
    ELSE Real(sy, MagSub(b, a), d, pe)

\* x + y for two numbers of the same unit
Add(x, y) ==
    IF x.s = 0 THEN y
    ELSE IF y.s = 0 THEN x
    ELSE IF x.d = y.d THEN AddOver(x.s, y.s, x.n, y.n, x.d, x.pi)
    ELSE AddOver(x.s, y.s, MagMul(x.n, y.d), MagMul(y.n, x.d), MagMul(x.d, y.d), x.pi)

Sub(x, y) == Add(x, Neg(y))

\* -1, 0, 1 as x < y, x = y, x > y, for two numbers of the same unit
Cmp(x, y) ==
    IF x.s # y.s THEN (IF x.s < y.s THEN -1 ELSE 1)
    ELSE IF x.s = 0 THEN 0
    ELSE x.s * MagCmp(MagMul(x.n, y.d), MagMul(y.n, x.d))

Eq(x, y) == SameUnit(x, y) /\ Cmp(x, y) = 0
Lt(x, y) == Cmp(x, y) < 0
Le(x, y) == Cmp(x, y) <= 0

(***************************************************************************)
(* Python floats.  Float(x) is the IEEE 754 double nearest to x, ties to   *)
(* even, for 2^-ExponentRange <= |x| < 2^ExponentRange.  It is applied     *)
(* where the code compares a computed float with a threshold, so that the  *)
(* branch taken is the branch the interpreter takes.                       *)
(***************************************************************************)
ExponentRange == 128

RECURSIVE MagPow2(_)
MagTwice(a) == MagMulLimb(a, 2)
MagTimesItself(a) == MagMul(a, a)

\* 2^k
MagPow2(k) ==
    IF k = 0 THEN <<1>>
    ELSE IF k % 2 = 1 THEN MagTwice(MagPow2(k - 1))
    ELSE MagTimesItself(MagPow2(k \div 2))

\* a * 2^k for k > 0, a for k <= 0
MagScale(a, k) == IF k > 0 THEN MagMul(a, MagPow2(k)) ELSE a

\* the largest e in lo..hi-1 with 2^e <= n / d, by bisection
RECURSIVE BinaryExponent(_, _, _, _)
BinaryExponent(n, d, lo, hi) ==
    IF hi - lo <= 1 THEN lo
    ELSE LET mid == (lo + hi) \div 2
         IN  IF MagCmp(MagScale(d, mid), MagScale(n, -mid)) <= 0
             THEN BinaryExponent(n, d, mid, hi)
             ELSE BinaryExponent(n, d, lo, mid)

\* the largest q in lo..hi-1 with q * d * LimbBase^p <= r, by bisection
RECURSIVE QuotientLimb(_, _, _, _, _)
QuotientLimb(r, d, p, lo, hi) ==
    IF hi - lo <= 1 THEN lo
    ELSE LET mid == (lo + hi) \div 2
         IN  IF MagCmp(MagShift(MagMulLimb(d, mid), p), r) <= 0
             THEN QuotientLimb(r, d, p, mid, hi)
             ELSE QuotientLimb(r, d, p, lo, mid)

\* long division: r is what is left of the dividend, q the limbs of the
\* quotient above position p
RECURSIVE MagDivFrom(_, _, _, _)
RECURSIVE MagDivStep(_, _, _, _, _)
MagDivFrom(r, d, p, q) ==
    IF p < 0 THEN [quot |-> MagStrip(q), rem |-> r]
    ELSE MagDivStep(r, d, p, q, QuotientLimb(r, d, p, 0, LimbBase))

MagDivStep(r, d, p, q, limb) ==
    MagDivFrom(MagSub(r, MagShift(MagMulLimb(d, limb), p)), d, p - 1, <<limb>> \o q)

\* quotient and remainder of n by d > 0
MagDiv(n, d) ==
    MagDivFrom(n, d, IF Len(n) > Len(d) THEN Len(n) - Len(d) ELSE 0, <<>>)

\* the quotient rounded to the nearest integer, ties to even
MagNearest(division, d) ==
    IF \/ MagCmp(MagTwice(division.rem), d) > 0
       \/ /\ MagCmp(MagTwice(division.rem), d) = 0
          /\ division.quot[1] % 2 = 1
    THEN MagAdd(division.quot, <<1>>)
    ELSE division.quot

\* the double nearest to x # 0 with 2^e <= |x| < 2^(e + 1): a significand of
\* 53 bits times 2^(e - 52)
FloatWith(x, e) ==
    IF e >= 52
    THEN Real(x.s,
              MagMul(MagNearest(MagDiv(x.n, MagScale(x.d, e - 52)),
                                MagScale(x.d, e - 52)),
                     MagPow2(e - 52)),
              <<1>>, x.pi)
    ELSE Real(x.s,
              MagNearest(MagDiv(MagScale(x.n, 52 - e), x.d), x.d),
              MagPow2(52 - e), x.pi)

Float(x) ==
    IF x.s = 0 THEN x
    ELSE FloatWith(x, BinaryExponent(x.n, x.d, -ExponentRange, ExponentRange))

(***************************************************************************)
(* Library functions.  Values are rounded to the nearest multiple of       *)
(* 1 / FixedScale.                                                         *)
(***************************************************************************)
FixedScale == 1000

Pi == Real(1, <<1>>, <<1>>, 1)

\* the square of the natural number k
MagSquare(k) == IF k < 46340 THEN MagFromNat(k * k)
                ELSE MagMul(MagFromNat(k), MagFromNat(k))

\* a power of two hi >= start with n < hi^2 * d
RECURSIVE SqrtAbove(_, _, _)
SqrtAbove(n, d, hi) ==
    IF MagCmp(n, MagMul(MagSquare(hi), d)) < 0 THEN hi
    ELSE SqrtAbove(n, d, 2 * hi)

\* the largest r with r^2 * d <= n, by bisection: lo^2 * d <= n < hi^2 * d
RECURSIVE SqrtFloor(_, _, _, _)
SqrtFloor(n, d, lo, hi) ==
    IF hi - lo <= 1 THEN lo
    ELSE LET mid == (lo + hi) \div 2
         IN  IF MagCmp(MagMul(MagSquare(mid), d), n) <= 0
             THEN SqrtFloor(n, d, mid, hi)
             ELSE SqrtFloor(n, d, lo, mid)

\* r or r + 1, the one nearer to the square root of n / d, for r its floor
SqrtNearest(n, d, r) ==
    IF MagCmp(MagMul(MagSquare(2 * r + 1), d), MagMul(<<4>>, n)) <= 0 THEN r + 1
    ELSE r

\* the natural number nearest to the square root of n / d
SqrtRound(n, d) == SqrtNearest(n, d, SqrtFloor(n, d, 0, SqrtAbove(n, d, 1)))

\* the square root of x >= 0 rounded to the nearest multiple of 1 / scale;
\* the exponent of pi in x is even
SqrtTo(x, scale) ==
    [Frac(SqrtRound(MagMul(MagSquare(scale), x.n), x.d), scale)
        EXCEPT !.pi = x.pi \div 2]

\* np.sqrt(x)
Sqrt(x) == SqrtTo(x, FixedScale)

\* FixedScale * sin(k degrees), k = 0..90, at index k + 1
SinTable ==
    << 0, 17, 35, 52, 70, 87, 105, 122, 139, 156, 174, 191, 208,
       225, 242, 259, 276, 292, 309, 326, 342, 358, 375, 391, 407, 423,
       438, 454, 469, 485, 500, 515, 530, 545, 559, 574, 588, 602, 616,
       629, 643, 656, 669, 682, 695, 707, 719, 731, 743, 755, 766, 777,
       788, 799, 809, 819, 829, 839, 848, 857, 866, 875, 883, 891, 899,
       906, 914, 921, 927, 934, 940, 946, 951, 956, 961, 966, 970, 974,
       978, 982, 985, 988, 990, 993, 995, 996, 998, 999, 999, 1000, 1000 >>

\* sin(k degrees); an angle is a record of its measure in degrees, its sine
\* and its cosine
SinDeg(k) == Frac(SinTable[k + 1], FixedScale)

\* cos of the float nearest to pi / 2 is 6.123e-17, not 0
CosRightAngle == Real(1, <<6123>>, <<0, 0, 0, 0, 0, 1>>, 0)

CosDeg(k) == IF k = 90 THEN CosRightAngle ELSE SinDeg(90 - k)

\* np.radians(x) for a whole number x of degrees in 0..90
Radians(x) ==
    LET k == IF x.n = <<>> THEN 0 ELSE x.n[1]
    IN  [deg |-> x, sin |-> SinDeg(k), cos |-> CosDeg(k)]

\* the largest k in lo..hi-1 with sin(k degrees) <= x, by bisection
RECURSIVE DegreeBelow(_, _, _)
DegreeBelow(x, lo, hi) ==
    IF hi - lo <= 1 THEN lo
    ELSE LET mid == (lo + hi) \div 2
         IN  IF Le(SinDeg(mid), x) THEN DegreeBelow(x, mid, hi)
                                   ELSE DegreeBelow(x, lo, mid)

\* np.arcsin(x) for 0 <= x <= 1; the measure is the whole degree below
ArcSin(x) ==
    [deg |-> Num(DegreeBelow(x, 0, 91)), sin |-> x,
     cos |-> IF Eq(x, One) THEN CosRightAngle ELSE Sqrt(Sub(One, Mul(x, x)))]

NpSin(theta) == theta.sin
NpCos(theta) == theta.cos
Degrees(theta) == theta.deg

(***************************************************************************)
(* JSON values, dictionaries and exceptions.  A dictionary is a function   *)
(* from its keys; a JSON value is tagged with its type.                    *)
(***************************************************************************)
None == [none |-> TRUE]

JNum(x) == [t |-> "num", v |-> x]
JStr(x) == [t |-> "str", v |-> x]

HasKey(d, k) == k \in DOMAIN d

\* dict.get(k, default)
Get(d, k, default) == IF HasKey(d, k) THEN d[k] ELSE default

Exception(type, msg) == [type |-> type, msg |-> msg]

\* str(KeyError(k)) is the repr of the key
KeyError(k) == Exception("KeyError", <<"'", k, "'">>)
ValueError(msg) == Exception("ValueError", msg)
TypeError(msg) == Exception("TypeError", msg)

\* the outcome of a call: a returned value or a raised exception
Return(v) == [raised |-> None, value |-> v]
Raise(e) == [raised |-> e, value |-> None]

(***************************************************************************)
(* Physical constants and the two dataclasses.                             *)
(***************************************************************************)
RECURSIVE TenTo(_)
TenTo(k) == IF k = 0 THEN One ELSE Mul(Num(10), TenTo(k - 1))

SPEED_OF_LIGHT == Num(299792458)
VACUUM_PERMITTIVITY == Div(Add(Num(8), Frac(854187817, 1000000000)), TenTo(12))
VACUUM_PERMEABILITY ==
    Div(Add(Mul(Num(125663), Num(1000000)), Num(706212)), TenTo(17))
VACUUM_IMPEDANCE == Add(Num(376), Frac(730313668, 1000000000))

WaveParameters(frequency, amplitude) ==
    [frequency |-> frequency, amplitude |-> amplitude]

wavelength(wave) == Div(SPEED_OF_LIGHT, wave.frequency)
\* 2 pi divided by the frequency instead of the wavelength
wave_number_of_frequency(wave) == Div(Mul(Num(2), Pi), wave.frequency)

wave_number(wave) == Div(Mul(Num(2), Pi), wavelength(wave))
angular_frequency(wave) == Mul(Mul(Num(2), Pi), wave.frequency)
period(wave) == Div(One, wave.frequency)

MediumProperties(name, relative_permittivity) ==
    [name |-> name,
     relative_permittivity |-> relative_permittivity,
     relative_permeability |-> One,
     conductivity |-> Zero]

refractive_index(medium) ==
    Sqrt(Mul(medium.relative_permittivity, medium.relative_permeability))
wave_speed(medium) == Div(SPEED_OF_LIGHT, refractive_index(medium))
impedance(medium) ==
    Mul(VACUUM_IMPEDANCE,
        Sqrt(Div(medium.relative_permeability, medium.relative_permittivity)))

materials ==
    [Air |-> MediumProperties("Air", Frac(100059, 100000)),
     Water |-> MediumProperties("Water", Num(80)),
     Glass |-> MediumProperties("Glass", Frac(225, 100)),
     Diamond |-> MediumProperties("Diamond", Frac(584, 100))]

(***************************************************************************)
(* generate_configuration                                                  *)
(***************************************************************************)
MediumEntry(medium) ==
    [name |-> medium.name,
     relative_permittivity |-> medium.relative_permittivity,
     relative_permeability |-> medium.relative_permeability,
     refractive_index |-> refractive_index(medium),
     wave_speed |-> wave_speed(medium),
     impedance |-> impedance(medium)]

\* r_te, t_te, r_tm and t_tm from the products n1 cos(theta_i),
\* n2 cos(theta_t), n2 cos(theta_i) and n1 cos(theta_t)
FresnelAmplitudes(n1ci, n2ct, n2ci, n1ct) ==
    [r_te |-> Div(Sub(n1ci, n2ct), Add(n1ci, n2ct)),
     t_te |-> Div(Mul(Num(2), n1ci), Add(n1ci, n2ct)),
     r_tm |-> Div(Sub(n2ci, n1ct), Add(n2ci, n1ct)),
     t_tm |-> Div(Mul(Num(2), n1ci), Add(n2ci, n1ct))]

\* the amplitudes with R_te = r_te^2 and T_te = ratio * t_te^2
FresnelPowers(amplitudes, ratio) ==
    [r_te |-> amplitudes.r_te, t_te |-> amplitudes.t_te,
     r_tm |-> amplitudes.r_tm, t_tm |-> amplitudes.t_tm,
     R_te |-> Mul(amplitudes.r_te, amplitudes.r_te),
     T_te |-> Mul(ratio, Mul(amplitudes.t_te, amplitudes.t_te))]

\* the transmitted power taken as t_te^2, without the ratio of the media
FresnelCoefficientsPlainSquare(n1, n2, cos_theta_i, cos_theta_t) ==
    FresnelPowers(FresnelAmplitudes(Mul(n1, cos_theta_i), Mul(n2, cos_theta_t),
                                    Mul(n2, cos_theta_i), Mul(n1, cos_theta_t)),
                  One)

\* the Fresnel coefficients of normal refraction
FresnelCoefficients(n1, n2, cos_theta_i, cos_theta_t) ==
    FresnelPowers(FresnelAmplitudes(Mul(n1, cos_theta_i), Mul(n2, cos_theta_t),
                                    Mul(n2, cos_theta_i), Mul(n1, cos_theta_t)),
                  Div(Mul(n2, cos_theta_t), Mul(n1, cos_theta_i)))

\* Snell's law with the two media exchanged
SnellSineExchanged(n1, n2, theta_i) == Div(Mul(n2, NpSin(theta_i)), n1)

\* Snell's law: sin_theta_t = n1 * np.sin(theta_i) / n2
SnellSine(n1, n2, theta_i) == Div(Mul(n1, NpSin(theta_i)), n2)

\* the entries of normal refraction: theta_t = np.arcsin(sin_theta_t)
Refracted(n1, n2, theta_i, theta_t) ==
    [transmitted_angle_deg |-> Degrees(theta_t),
     transmitted_angle_rad |-> theta_t,
     total_internal_reflection |-> FALSE,
     fresnel_coefficients |->
         FresnelCoefficients(n1, n2, NpCos(theta_i), NpCos(theta_t))]

\* the entries of total internal reflection
TotallyReflected(n1, n2) ==
    [total_internal_reflection |-> TRUE,
     critical_angle_deg |-> Degrees(ArcSin(Div(n2, n1))),
     fresnel_coefficients |->
         [r_te |-> One, r_tm |-> One, R_te |-> One, R_tm |-> One]]

\* if sin_theta_t <= 1.0: ... else: ...
Transmission(n1, n2, theta_i, sin_theta_t) ==
    IF Le(sin_theta_t, One) THEN Refracted(n1, n2, theta_i, ArcSin(sin_theta_t))
    ELSE TotallyReflected(n1, n2)

\* the entries the reflection branch adds to config["physics"]
ReflectionSection(medium1, medium2, angle) ==
    [media |-> <<MediumEntry(medium1), MediumEntry(medium2)>>,
     incident_angle_deg |-> angle,
     incident_angle_rad |-> Radians(angle)]
    @@ Transmission(refractive_index(medium1), refractive_index(medium2),
                    Radians(angle),
                    SnellSine(refractive_index(medium1), refractive_index(medium2),
                              Radians(angle)))

AbsReal(x) == [x EXCEPT !.s = Abs(x.s)]

\* the square root of the Doppler factor is taken to FineScale: for the
\* velocities of the form (multiples of 1000 m/s) the factor differs from 1
\* by 3e-6 or more
FineScale == 1000000

\* the formula of a receding source taken for every velocity
DopplerFactorReceding(v, beta) ==
    SqrtTo(Div(Sub(One, AbsReal(beta)), Add(One, AbsReal(beta))), FineScale)

\* np.sqrt((1 + beta) / (1 - beta)) for an approaching source,
\* np.sqrt((1 - abs(beta)) / (1 + abs(beta))) for a receding one
DopplerFactor(v, beta) ==
    IF Lt(Zero, v)
    THEN SqrtTo(Div(Add(One, beta), Sub(One, beta)), FineScale)
    ELSE SqrtTo(Div(Sub(One, AbsReal(beta)), Add(One, AbsReal(beta))), FineScale)

\* the dictionary of a source slower than light
DopplerShift(frequency, v, beta, f_observed) ==
    [source_velocity |-> v,
     beta |-> beta,
     observed_frequency |-> f_observed,
     frequency_shift |-> Sub(f_observed, frequency),
     relative_shift |-> Div(Sub(f_observed, frequency), frequency)]

\* if abs(beta) < 1.0: ... else: ...
DopplerOf(frequency, v, beta) ==
    IF Lt(AbsReal(beta), One)
    THEN DopplerShift(frequency, v, beta, Mul(frequency, DopplerFactor(v, beta)))
    ELSE [source_velocity |-> v,
          error |-> "Velocity cannot exceed speed of light"]

\* the value of config["physics"]["doppler"]
DopplerSection(wave, data) ==
    DopplerOf(wave.frequency, Get(data, "velocity", JNum(Zero)).v,
              Div(Get(data, "velocity", JNum(Zero)).v, SPEED_OF_LIGHT))

Square(x) == Mul(x, x)

\* R_rad for the ratio l_over_lambda; 0.1 and 0.01 are the doubles the
\* literals denote
RadiationResistanceOf(l_over_lambda) ==
    IF Le(l_over_lambda, Float(Frac(1, 10)))
    THEN Mul(Num(20), Square(Mul(Pi, l_over_lambda)))
    ELSE IF Lt(AbsReal(Float(Sub(l_over_lambda, Frac(5, 10)))), Float(Frac(1, 100)))
    THEN Frac(7313, 100)
    ELSE Mul(Num(80), Square(Mul(Pi, l_over_lambda)))

\* the quotient is rounded to a double before it is compared
calculate_radiation_resistance(dipole_length, lambda) ==
    RadiationResistanceOf(Float(Div(dipole_length, lambda)))

\* the dipole section for the parsed length in wavelengths and the float
\* wave.wavelength; the product is rounded to a double
DipoleOf(data, length_wavelengths, lambda) ==
    [length |-> Float(Mul(length_wavelengths, lambda)),
     length_wavelengths |-> length_wavelengths,
     current_distribution |-> Get(data, "current_dist", JStr("uniform")).v,
     radiation_resistance |->
         calculate_radiation_resistance(Float(Mul(length_wavelengths, lambda)),
                                        lambda)]

\* the value of config["physics"]["dipole"]
DipoleSection(wave, data) ==
    DipoleOf(data,
             Float(Get(data, "dipole_length", JNum(Frac(5, 10))).v),
             Float(wavelength(wave)))

\* np.inf
Infinity == [s |-> 1, n |-> <<1>>, d |-> <<>>, pi |-> 0]

calculate_waveguide_impedance(mode_type, frequency, fc) ==
    IF Le(frequency, fc) THEN Infinity
    ELSE IF mode_type = <<"T", "E">>
    THEN Div(VACUUM_IMPEDANCE, Sqrt(Sub(One, Square(Div(fc, frequency)))))
    ELSE Mul(VACUUM_IMPEDANCE, Sqrt(Sub(One, Square(Div(fc, frequency)))))

\* int(ch) for a decimal digit ch
DigitValue ==
    ("0" :> 0) @@ ("1" :> 1) @@ ("2" :> 2) @@ ("3" :> 3) @@ ("4" :> 4) @@
    ("5" :> 5) @@ ("6" :> 6) @@ ("7" :> 7) @@ ("8" :> 8) @@ ("9" :> 9)

\* fc = c / (2 pi) * sqrt((m pi / a)^2 + (n pi / b)^2)
CutoffFrequency(m, n, a, b) ==
    Mul(Div(SPEED_OF_LIGHT, Mul(Num(2), Pi)),
        Sqrt(Add(Square(Div(Mul(Num(m), Pi), a)), Square(Div(Mul(Num(n), Pi), b)))))

\* wave.angular_frequency / SPEED_OF_LIGHT
FreeWaveNumber(wave) == Div(angular_frequency(wave), SPEED_OF_LIGHT)

\* 2 * np.pi * fc / SPEED_OF_LIGHT
CutoffWaveNumber(fc) == Div(Mul(Mul(Num(2), Pi), fc), SPEED_OF_LIGHT)

\* the dictionary of a propagating mode with propagation constant beta_g
Propagating(wave, data, a, b, mode, fc, beta_g) ==
    [type |-> Get(data, "guide_type", JStr("rectangular")).v,
     width |-> a,
     height |-> b,
     mode |-> mode,
     mode_type |-> SubSeq(mode, 1, 2),
     mode_indices |-> [m |-> DigitValue[mode[3]], n |-> DigitValue[mode[4]]],
     cutoff_frequency |-> fc,
     cutoff_wavelength |-> Div(SPEED_OF_LIGHT, fc),
     propagation_constant |-> beta_g,
     guide_wavelength |-> Div(Mul(Num(2), Pi), beta_g),
     phase_velocity |-> Div(angular_frequency(wave), beta_g),
     group_velocity |->
         Div(Mul(SPEED_OF_LIGHT, SPEED_OF_LIGHT), Div(angular_frequency(wave), beta_g)),
     impedance |->
         calculate_waveguide_impedance(SubSeq(mode, 1, 2), wave.frequency, fc)]

\* the dictionary of an evanescent mode with attenuation constant alpha
Evanescent(data, a, b, mode, fc, alpha) ==
    [type |-> Get(data, "guide_type", JStr("rectangular")).v,
     width |-> a,
     height |-> b,
     mode |-> mode,
     cutoff_frequency |-> fc,
     attenuation_constant |-> alpha,
     evanescent |-> TRUE]

\* if wave.frequency > fc: ... else: ...
WaveguideMode(wave, data, a, b, mode, fc) ==
    IF Lt(fc, wave.frequency)
    THEN Propagating(wave, data, a, b, mode, fc,
             Sqrt(Sub(Square(FreeWaveNumber(wave)), Square(CutoffWaveNumber(fc)))))
    ELSE Evanescent(data, a, b, mode, fc,
             Sqrt(Sub(Square(CutoffWaveNumber(fc)), Square(FreeWaveNumber(wave)))))

\* m read from the fourth character of the mode and n from the third
WaveguideIndicesExchanged(wave, data, a, b, mode) ==
    WaveguideMode(wave, data, a, b, mode,
                  CutoffFrequency(DigitValue[mode[4]], DigitValue[mode[3]], a, b))

\* the guide of the request: width a, height b and mode, the sequence of the
\* characters of the mode string
Waveguide(wave, data, a, b, mode) ==
    WaveguideMode(wave, data, a, b, mode,
                  CutoffFrequency(DigitValue[mode[3]], DigitValue[mode[4]], a, b))

\* the value of config["physics"]["waveguide"]
WaveguideSection(wave, data) ==
    Waveguide(wave, data,
              Get(data, "guide_width", JNum(Frac(23, 1000))).v,
              Get(data, "guide_height", JNum(Frac(10, 1000))).v,
              Get(data, "mode", JStr(<<"T", "E", "1", "0">>)).v)

\* config["physics"] before the branch on the phenomenon
BasePhysics(wave) ==
    [wave |->
         [frequency |-> wave.frequency,
          amplitude |-> wave.amplitude,
          wavelength |-> wavelength(wave),
          period |-> period(wave),
          angular_frequency |-> angular_frequency(wave),
          wave_number |-> wave_number(wave)],
     constants |->
         [speed_of_light |-> SPEED_OF_LIGHT,
          vacuum_permittivity |-> VACUUM_PERMITTIVITY,
          vacuum_permeability |-> VACUUM_PERMEABILITY,
          vacuum_impedance |-> VACUUM_IMPEDANCE]]

NoEntries == [k \in {} |-> None]

\* the chain with one more branch, which reports the sources of interference
PhenomenonSectionWithSources(wave, data) ==
    IF data["phenomenon"].v = "reflection"
    THEN ReflectionSection(materials[data["medium1"].v],
                           materials[data["medium2"].v],
                           data["angle"].v)
    ELSE IF data["phenomenon"].v = "doppler"
    THEN [doppler |-> DopplerSection(wave, data)]
    ELSE IF data["phenomenon"].v = "dipole"
    THEN [dipole |-> DipoleSection(wave, data)]
    ELSE IF data["phenomenon"].v = "waveguide"
    THEN [waveguide |-> WaveguideSection(wave, data)]
    ELSE IF data["phenomenon"].v = "interference"
    THEN [interference |-> [sources |-> Get(data, "sources", JNum(Num(2))).v]]
    ELSE NoEntries

\* the entries the branch of the phenomenon adds to config["physics"], taken
\* in the order of the code's if / elif chain
PhenomenonSection(wave, data) ==
    IF data["phenomenon"].v = "reflection"
    THEN ReflectionSection(materials[data["medium1"].v],
                           materials[data["medium2"].v],
                           data["angle"].v)
    ELSE IF data["phenomenon"].v = "doppler"
    THEN [doppler |-> DopplerSection(wave, data)]
    ELSE IF data["phenomenon"].v = "dipole"
    THEN [dipole |-> DipoleSection(wave, data)]
    ELSE IF data["phenomenon"].v = "waveguide"
    THEN [waveguide |-> WaveguideSection(wave, data)]
    ELSE NoEntries

\* the dictionary the function returns when no exception is raised
ConfigurationOf(data) ==
    [version |-> "1.0",
     phenomenon |-> data["phenomenon"].v,
     physics |->
         BasePhysics(WaveParameters(data["frequency"].v, data["amplitude"].v))
         @@ PhenomenonSection(
                WaveParameters(data["frequency"].v, data["amplitude"].v), data)]

\* the first exception the function raises on data, or None
ConfigurationError(data) ==
    IF ~HasKey(data, "phenomenon") THEN KeyError("phenomenon")
    ELSE IF data["phenomenon"].v = "reflection"
    THEN IF ~HasKey(data, "medium1") THEN KeyError("medium1")
         ELSE IF ~HasKey(materials, data["medium1"].v) THEN KeyError(data["medium1"].v)
         ELSE IF ~HasKey(data, "medium2") THEN KeyError("medium2")
         ELSE IF ~HasKey(materials, data["medium2"].v) THEN KeyError(data["medium2"].v)
         ELSE IF ~HasKey(data, "angle") THEN KeyError("angle")
         ELSE None
    ELSE None

generate_configuration(data) ==
    IF ConfigurationError(data) # None THEN Raise(ConfigurationError(data))
    ELSE Return(ConfigurationOf(data))

(***************************************************************************)
(* The renderers.  A renderer opens one pyplot figure, draws, saves the    *)
(* figure as a PNG and closes it; an exception raised while drawing leaves *)
(* the function before plt.close(fig).                                     *)
(***************************************************************************)
\* the branches of plane_wave and standing_wave exchanged
RendererOfExchanged ==
    [plane_wave |-> "create_standing_wave_visualization",
     standing_wave |-> "create_plane_wave_visualization",
     reflection |-> "create_reflection_visualization",
     interference |-> "create_interference_visualization",
     doppler |-> "create_doppler_visualization",
     polarization |-> "create_polarization_visualization",
     dipole |-> "create_dipole_visualization",
     waveguide |-> "create_waveguide_visualization"]

\* a ninth branch in place of the final else
RendererOfNine ==
    [plane_wave |-> "create_plane_wave_visualization",
     standing_wave |-> "create_standing_wave_visualization",
     reflection |-> "create_reflection_visualization",
     interference |-> "create_interference_visualization",
     doppler |-> "create_doppler_visualization",
     polarization |-> "create_polarization_visualization",
     dipole |-> "create_dipole_visualization",
     waveguide |-> "create_waveguide_visualization",
     diffraction |-> "create_plane_wave_visualization"]

RendererOf ==
    [plane_wave |-> "create_plane_wave_visualization",
     standing_wave |-> "create_standing_wave_visualization",
     reflection |-> "create_reflection_visualization",
     interference |-> "create_interference_visualization",
     doppler |-> "create_doppler_visualization",
     polarization |-> "create_polarization_visualization",
     dipole |-> "create_dipole_visualization",
     waveguide |-> "create_waveguide_visualization"]

\* a JSON number written without a fraction is a Python int
IsInt(value) == value.t = "num" /\ value.v.d = <<1>>

\* range(n_sources) accepts only an int
create_interference_visualization_error(config, data) ==
    IF IsInt(Get(data, "sources", JNum(Num(2)))) THEN None
    ELSE TypeError(<<"object cannot be interpreted as an integer">>)

\* the exception a renderer raises after it has opened its figure, or None
RendererError(renderer, config, data) ==
    IF renderer = "create_interference_visualization"
    THEN create_interference_visualization_error(config, data)
    ELSE None

\* what create_doppler_visualization draws with abs(v) > c as its check
DopplerDrawingBeyond(config, data) ==
    IF Lt(SPEED_OF_LIGHT, AbsReal(Get(data, "velocity", JNum(Zero)).v))
    THEN <<"Error: Velocity cannot equal or exceed speed of light!">>
    ELSE <<"Wave Comparison",
           IF Lt(Zero, Get(data, "velocity", JNum(Zero)).v) THEN "Blue shift"
                                                            ELSE "Red shift">>

\* what create_doppler_visualization draws: the error text when
\* abs(v) >= SPEED_OF_LIGHT, else the wave comparison and its shift_type
DopplerDrawing(config, data) ==
    IF Le(SPEED_OF_LIGHT, AbsReal(Get(data, "velocity", JNum(Zero)).v))
    THEN <<"Error: Velocity cannot equal or exceed speed of light!">>
    ELSE <<"Wave Comparison",
           IF Lt(Zero, Get(data, "velocity", JNum(Zero)).v) THEN "Blue shift"
                                                            ELSE "Red shift">>

\* the texts of the figure that the claims are about
Drawing(renderer, config, data) ==
    IF renderer = "create_doppler_visualization" THEN DopplerDrawing(config, data)
    ELSE <<>>

\* the dictionary a renderer returns: the PNG of its figure and its HTML
RendererResult(renderer, config, data) ==
    [image |-> <<"image/png;base64", renderer>> \o Drawing(renderer, config, data),
     description_html |-> <<"text/html", renderer>>]

(***************************************************************************)
(* The state of the server and of the request being handled.               *)
(***************************************************************************)
VARIABLES
    pc,            \* position of visualize(): idle, read, validate, generate,
                   \* render, return, except
    body,          \* the body of the request being handled
    data,          \* request.json
    config,        \* the value generate_configuration returned
    result,        \* the value the renderer returned
    exc,           \* the exception being propagated
    responses,     \* the responses sent for the request being handled
    calls,         \* the functions visualize() has called for this request
    escaped,       \* an exception has left visualize()
    open_figures,  \* number of figures in pyplot's registry
    silent_json,   \* the installed Flask reads a body of another content
                   \* type as None instead of raising
    memo           \* a request answered earlier and the responses to it

vars == <<pc, body, data, config, result, exc, responses, calls, escaped,
          open_figures, silent_json, memo>>

\* request bodies: a JSON object, the JSON value null, a body that is not
\* well-formed JSON, a body whose content type is not JSON
ObjectBody(obj) == [kind |-> "object", obj |-> obj]
NullBody == [kind |-> "null", obj |-> None]
MalformedBody == [kind |-> "malformed", obj |-> None]
NotJsonBody == [kind |-> "not_json", obj |-> None]

\* every exception class of the program derives from Exception
ExceptionClasses ==
    {"ValueError", "KeyError", "TypeError", "BadRequest", "UnsupportedMediaType"}

\* except ValueError as e
CatchesValueError(e) == e.type = "ValueError"

\* except Exception as e
Catches(e) == e.type \in ExceptionClasses

\* the amplitude checked before the frequency
ValidationErrorAmplitudeFirst(d) ==
    IF d = None THEN TypeError(<<"'NoneType' object is not subscriptable">>)
    ELSE IF ~HasKey(d, "amplitude") THEN KeyError("amplitude")
    ELSE IF d["amplitude"].t # "num"
    THEN TypeError(<<"'<=' not supported between instances of 'str' and 'int'">>)
    ELSE IF Le(d["amplitude"].v, Zero) THEN ValueError(<<"Amplitude must be positive">>)
    ELSE IF ~HasKey(d, "frequency") THEN KeyError("frequency")
    ELSE IF d["frequency"].t # "num"
    THEN TypeError(<<"'<=' not supported between instances of 'str' and 'int'">>)
    ELSE IF Le(d["frequency"].v, Zero) THEN ValueError(<<"Frequency must be positive">>)
    ELSE None

\* the first exception the validation of data raises, or None
ValidationError(d) ==
    IF d = None THEN TypeError(<<"'NoneType' object is not subscriptable">>)
    ELSE IF ~HasKey(d, "frequency") THEN KeyError("frequency")
    ELSE IF d["frequency"].t # "num"
    THEN TypeError(<<"'<=' not supported between instances of 'str' and 'int'">>)
    ELSE IF Le(d["frequency"].v, Zero) THEN ValueError(<<"Frequency must be positive">>)
    ELSE IF ~HasKey(d, "amplitude") THEN KeyError("amplitude")
    ELSE IF d["amplitude"].t # "num"
    THEN TypeError(<<"'<=' not supported between instances of 'str' and 'int'">>)
    ELSE IF Le(d["amplitude"].v, Zero) THEN ValueError(<<"Amplitude must be positive">>)
    ELSE None

Init ==
    /\ pc = "idle"
    /\ body = None
    /\ data = None
    /\ config = None
    /\ result = None
    /\ exc = None
    /\ responses = <<>>
    /\ calls = <<>>
    /\ escaped = FALSE
    /\ open_figures = 0
    /\ silent_json \in BOOLEAN
    /\ memo = None

\* a POST /visualize request arrives
Receive(b) ==
    /\ pc = "idle"
    /\ open_figures < MaxOpenFigures
    /\ pc' = "read"
    /\ body' = b
    /\ data' = None
    /\ config' = None
    /\ result' = None
    /\ exc' = None
    /\ responses' = <<>>
    /\ calls' = <<>>
    /\ escaped' = FALSE
    /\ UNCHANGED <<open_figures, silent_json, memo>>

\* data = request.json
ReadJson ==
    /\ pc = "read"
    /\ \/ /\ body.kind \in {"object", "null"}
          /\ data' = body.obj
          /\ pc' = "validate"
          /\ exc' = exc
       \/ /\ body.kind = "malformed"
          /\ exc' = Exception("BadRequest", <<"400 Bad Request">>)
          /\ pc' = "except"
          /\ data' = data
       \/ /\ body.kind = "not_json"
          /\ ~silent_json
          /\ exc' = Exception("UnsupportedMediaType", <<"415 Unsupported Media Type">>)
          /\ pc' = "except"
          /\ data' = data
       \/ /\ body.kind = "not_json"
          /\ silent_json
          /\ data' = None
          /\ pc' = "validate"
          /\ exc' = exc
    /\ UNCHANGED <<body, config, result, responses, calls, escaped, open_figures,
                   silent_json, memo>>

\* the two checks on frequency and amplitude
Validate ==
    /\ pc = "validate"
    /\ IF ValidationError(data) # None
       THEN exc' = ValidationError(data) /\ pc' = "except"
       ELSE exc' = exc /\ pc' = "generate"
    /\ UNCHANGED <<body, data, config, result, responses, calls, escaped, open_figures,
                   silent_json, memo>>

\* config = generate_configuration(data)
Generate ==
    /\ pc = "generate"
    /\ calls' = Append(calls, "generate_configuration")
    /\ \E out \in {generate_configuration(data)} :
           IF out.raised # None
           THEN exc' = out.raised /\ pc' = "except" /\ config' = config
           ELSE config' = out.value /\ pc' = "render" /\ exc' = exc
    /\ UNCHANGED <<body, data, result, responses, escaped, open_figures, silent_json, memo>>

\* a renderer that draws into pyplot's current figure and fails when an
\* earlier request has left one open
RenderIntoCurrentFigure ==
    /\ pc = "render"
    /\ LET phenomenon == data["phenomenon"].v
       IN  IF HasKey(RendererOf, phenomenon)
           THEN LET renderer == RendererOf[phenomenon]
                    error == IF open_figures > 0
                             THEN ValueError(<<"figure in use">>)
                             ELSE RendererError(renderer, config, data)
                IN  /\ calls' = Append(calls, renderer)
                    /\ IF error # None
                       THEN /\ exc' = error
                            /\ pc' = "except"
                            /\ result' = result
                            /\ open_figures' = open_figures + 1
                       ELSE /\ result' = RendererResult(renderer, config, data)
                            /\ pc' = "return"
                            /\ exc' = exc
                            /\ open_figures' = open_figures
           ELSE /\ exc' = ValueError(<<"Unknown phenomenon: ", phenomenon>>)
                /\ pc' = "except"
                /\ UNCHANGED <<calls, result, open_figures>>
    /\ UNCHANGED <<body, data, config, responses, escaped, silent_json, memo>>

\* the if / elif chain on data['phenomenon'] and the renderer it selects
Render ==
    /\ pc = "render"
    /\ LET phenomenon == data["phenomenon"].v
       IN  IF HasKey(RendererOf, phenomenon)
           THEN LET renderer == RendererOf[phenomenon]
                    error == RendererError(renderer, config, data)
                IN  /\ calls' = Append(calls, renderer)
                    /\ IF error # None
                       THEN /\ exc' = error
                            /\ pc' = "except"
                            /\ result' = result
                            /\ open_figures' = open_figures + 1
                       ELSE /\ result' = RendererResult(renderer, config, data)
                            /\ pc' = "return"
                            /\ exc' = exc
                            /\ open_figures' = open_figures
           ELSE /\ exc' = ValueError(<<"Unknown phenomenon: ", phenomenon>>)
                /\ pc' = "except"
                /\ UNCHANGED <<calls, result, open_figures>>
    /\ UNCHANGED <<body, data, config, responses, escaped, silent_json, memo>>

\* the success response built from the request instead of the configuration
ReturnSuccessEchoingRequest ==
    /\ pc = "return"
    /\ responses' = Append(responses,
           [success |-> TRUE,
            image |-> result["image"],
            config |-> data,
            description |-> Get(result, "description", ""),
            description_html |-> Get(result, "description_html", "")])
    /\ pc' = "idle"
    /\ UNCHANGED <<body, data, config, result, exc, calls, escaped, open_figures, silent_json>>

\* return jsonify({'success': True, ...})
ReturnSuccess ==
    /\ pc = "return"
    /\ responses' = Append(responses,
           [success |-> TRUE,
            image |-> result["image"],
            config |-> config,
            description |-> Get(result, "description", ""),
            description_html |-> Get(result, "description_html", "")])
    /\ pc' = "idle"
    /\ UNCHANGED <<body, data, config, result, exc, calls, escaped, open_figures, silent_json>>

\* except Exception as e: return jsonify({'success': False, 'error': str(e)})
HandleException ==
    /\ pc = "except"
    /\ IF Catches(exc)
       THEN /\ responses' = Append(responses, [success |-> FALSE, error |-> exc.msg])
            /\ escaped' = escaped
       ELSE /\ escaped' = TRUE
            /\ responses' = responses
    /\ pc' = "idle"
    /\ UNCHANGED <<body, data, config, result, exc, calls, open_figures, silent_json>>

\* visualize() has returned for the request in body
Done == pc = "idle" /\ body # None

\* the handler leaves through one of its two return statements
Respond == ReturnSuccess \/ HandleException

\* a client keeps one request, the responses it got and the number of figures
\* open at that time
Remember ==
    \/ memo' = memo
    \/ memo = None /\ memo' = [body |-> body, responses |-> responses',
                                figures |-> open_figures]

(***************************************************************************)
(* The requests of the specifications.                                     *)
(***************************************************************************)
Phenomena == DOMAIN RendererOf

GHz == Num(1000000000)

Base(phenomenon, frequency, amplitude) ==
    [phenomenon |-> JStr(phenomenon),
     frequency |-> JNum(frequency),
     amplitude |-> JNum(amplitude)]

Reflection(medium1, medium2, angle) ==
    Base("reflection", GHz, One) @@
    [medium1 |-> JStr(medium1), medium2 |-> JStr(medium2), angle |-> JNum(Num(angle))]

\* requests that exercise every path of the handler
HandlerObjects ==
    {Base(p, GHz, One) : p \in Phenomena}
    \cup {Base(p, f, a) : p \in {"plane_wave", "diffraction"}, f \in {Zero, GHz},
                          a \in {Zero, One}}
    \cup {Base("plane_wave", Num(-1), One),
          Base("plane_wave", GHz, Num(-1)),
          [phenomenon |-> JStr("plane_wave"), amplitude |-> JNum(One)],
          [phenomenon |-> JStr("plane_wave"), frequency |-> JStr("1e9"),
           amplitude |-> JNum(One)],
          [phenomenon |-> JStr("plane_wave"), frequency |-> JNum(GHz)],
          [phenomenon |-> JStr("plane_wave"), frequency |-> JNum(GHz),
           amplitude |-> JStr("1")],
          [frequency |-> JNum(GHz), amplitude |-> JNum(One)],
          [frequency |-> JNum(Zero)]}
    \cup {Reflection("Air", "Glass", 30), Reflection("Glass", "Air", 60),
          Reflection("Vacuum", "Glass", 30), Reflection("Air", "Vacuum", 30)}
    \cup {Base("interference", GHz, One) @@ [sources |-> JNum(x)] :
              x \in {Num(3), Frac(5, 2)}}

HandlerBodies ==
    {ObjectBody(obj) : obj \in HandlerObjects}
    \cup {NullBody, MalformedBody, NotJsonBody}

Next ==
    \/ \E b \in HandlerBodies : Receive(b)
    \/ ReadJson
    \/ Validate
    \/ Generate
    \/ Render
    \/ Respond /\ Remember

Spec == Init /\ [][Next]_vars

(***************************************************************************)
(* The requests the page sends for the physics of waves and of reflection: *)
(* every phenomenon at the frequencies 1..MaxMantissa of each unit, and    *)
(* reflection between every two media at every angle of the slider.        *)
(***************************************************************************)
\* the options of the freq_unit selector
FrequencyUnits == {One, Num(1000), Num(1000000), GHz}

\* the frequency field takes the values 1..MaxMantissa
MaxMantissa == 3

\* max of the angle slider, in degrees
MaxAngle == 90

\* the index each option of the medium selectors shows, in thousandths
AdvertisedIndex == [Air |-> 1000, Water |-> 1333, Glass |-> 1500, Diamond |-> 2417]

\* the parameters the page adds for interference and for polarization
Interference(sources, separation) ==
    Base("interference", GHz, One) @@
    [sources |-> JNum(Num(sources)), separation |-> JNum(separation)]

Polarization(pol_type, pol_angle) ==
    Base("polarization", GHz, One) @@
    [pol_type |-> JStr(pol_type), pol_angle |-> JNum(Num(pol_angle))]

PhysicsObjects ==
    {Base(p, Mul(Num(k), u), One) :
         p \in Phenomena, k \in 1..MaxMantissa, u \in FrequencyUnits}
    \cup {Interference(3, Num(2)), Polarization("circular", 45)}
    \cup {Reflection(m1, m2, k) :
              m1 \in DOMAIN AdvertisedIndex, m2 \in DOMAIN AdvertisedIndex,
              k \in 0..MaxAngle}

PhysicsBodies ==
    {ObjectBody(obj) : obj \in PhysicsObjects}
    \cup {NullBody, MalformedBody, NotJsonBody}

\* one request to a server that has handled none
NextPhysics ==
    \/ \E b \in PhysicsBodies : body = None /\ Receive(b)
    \/ ReadJson
    \/ Validate
    \/ Generate
    \/ Render
    \/ Respond /\ UNCHANGED memo

SpecPhysics == Init /\ [][NextPhysics]_vars

(***************************************************************************)
(* The requests of the Doppler, waveguide and dipole forms, each sent to a *)
(* server that has handled no request.                                     *)
(***************************************************************************)
\* max and step of the velocity slider, in m/s; its min is -MaxVelocity
MaxVelocity == 100000
VelocityStep == 1000

SliderVelocities ==
    {Num(k * VelocityStep) :
         k \in -(MaxVelocity \div VelocityStep)..(MaxVelocity \div VelocityStep)}

\* velocities a client can send without the slider: a billionth of a metre
\* per second, half the speed of light, the speed of light and twice it
OtherVelocities ==
    {Mul(Num(sign), v) :
         sign \in {-1, 1},
         v \in {Frac(1, 1000000000), Div(SPEED_OF_LIGHT, Num(2)), SPEED_OF_LIGHT,
                Mul(Num(2), SPEED_OF_LIGHT)}}

Doppler(frequency, velocity) ==
    Base("doppler", frequency, One) @@ [velocity |-> JNum(velocity)]

DopplerObjects ==
    {Doppler(f, v) : f \in {Num(1000000), GHz},
                     v \in SliderVelocities \cup OtherVelocities}
    \cup {Base("doppler", GHz, One)}

\* the options of the mode selector
SelectableModes ==
    {<<"T", "E", "1", "0">>, <<"T", "E", "2", "0">>, <<"T", "E", "0", "1">>,
     <<"T", "E", "1", "1">>, <<"T", "M", "1", "1">>}

\* widths of the slider 10..100 mm and heights of the slider 5..50 mm
GuideWidths == {10 * k : k \in 1..10} \cup {23}
GuideHeights == {5 * k : k \in 1..10}

\* the page sends the sizes in metres: parseFloat(value) / 1000
GuideRequest(frequency, width, height, mode) ==
    Base("waveguide", frequency, One) @@
    [guide_type |-> JStr("rectangular"),
     guide_width |-> JNum(Frac(width, 1000)),
     guide_height |-> JNum(Frac(height, 1000)),
     mode |-> JStr(mode)]

GuideObjects ==
    {GuideRequest(Mul(Num(10), GHz), a, b, mode) :
         a \in GuideWidths, b \in GuideHeights, mode \in SelectableModes}

\* positions of the length slider, 0.1 to 2.0 wavelengths in steps of 0.1,
\* as tenths
DipoleTenths == 1..20

\* frequencies the number field and the unit selector give, as multiples of
\* 1 GHz
DipoleGigahertz == {1, 3}

DipoleRequest(frequency, dipole_length) ==
    Base("dipole", frequency, One) @@
    [dipole_length |-> JNum(dipole_length),
     current_dist |-> JStr("sinusoidal"),
     view_type |-> JStr("3d")]

DipoleObjects ==
    {DipoleRequest(Mul(Num(g), GHz), Frac(k, 10)) :
         g \in DipoleGigahertz, k \in DipoleTenths}
    \cup {Base("dipole", GHz, One)}

ControlObjects == DopplerObjects \cup GuideObjects \cup DipoleObjects

ControlBodies ==
    {ObjectBody(obj) : obj \in ControlObjects}
    \cup {NullBody, MalformedBody, NotJsonBody}

NextControls ==
    \/ \E b \in ControlBodies : body = None /\ Receive(b)
    \/ ReadJson
    \/ Validate
    \/ Generate
    \/ Render
    \/ Respond /\ UNCHANGED memo

SpecControls == Init /\ [][NextControls]_vars

(***************************************************************************)
(* Properties of the handler, checked under Spec.                          *)
(***************************************************************************)
\* C1: every request ends in exactly one JSON response carrying 'success';
\* an exception raised while reading, validating, generating or rendering
\* becomes {success: false, error: str(e)}, and none leaves the handler.
C1_OneJsonResponse ==
    /\ ~escaped
    /\ Len(responses) <= 1
    /\ pc # "idle" => responses = <<>>
    /\ Done =>
       /\ Len(responses) = 1
       /\ "success" \in DOMAIN responses[1]
       /\ exc # None => responses[1] = [success |-> FALSE, error |-> exc.msg]
       /\ exc = None => responses[1].success

\* a renderer raised after generate_configuration returned, and the request
\* was answered with the error
C1_Witness ==
    /\ Done
    /\ exc # None
    /\ exc.type = "TypeError"
    /\ Len(calls) = 2
    /\ responses = <<[success |-> FALSE, error |-> exc.msg]>>

\* C2: a success response has the keys image, config, description and
\* description_html, with config the value generate_configuration returns for
\* the request; a failure response has only success and error.
C2_ResponseKeys ==
    (Done /\ responses # <<>>) =>
        LET r == responses[1]
        IN  IF r.success
            THEN /\ DOMAIN r = {"success", "image", "config", "description",
                                "description_html"}
                 /\ r.config = generate_configuration(data).value
            ELSE DOMAIN r = {"success", "error"}

C2_Witness ==
    /\ Done
    /\ responses # <<>>
    /\ responses[1].success
    /\ responses[1].config.phenomenon = "reflection"
    /\ "fresnel_coefficients" \in DOMAIN responses[1].config.physics

\* C3: frequency <= 0 is answered 'Frequency must be positive'; frequency > 0
\* with amplitude <= 0 is answered 'Amplitude must be positive'; the frequency
\* is checked first; neither generate_configuration nor a renderer is called.
C3_Validation ==
    (Done /\ data # None /\ HasKey(data, "frequency") /\ data["frequency"].t = "num") =>
        IF Le(data["frequency"].v, Zero)
        THEN /\ responses = <<[success |-> FALSE,
                               error |-> <<"Frequency must be positive">>]>>
             /\ calls = <<>>
        ELSE (/\ HasKey(data, "amplitude")
              /\ data["amplitude"].t = "num"
              /\ Le(data["amplitude"].v, Zero)) =>
                 /\ responses = <<[success |-> FALSE,
                                   error |-> <<"Amplitude must be positive">>]>>
                 /\ calls = <<>>

\* frequency and amplitude both fail their check: the frequency is reported
C3_Witness ==
    /\ Done
    /\ data # None
    /\ HasKey(data, "frequency") /\ data["frequency"].t = "num"
    /\ HasKey(data, "amplitude") /\ data["amplitude"].t = "num"
    /\ Le(data["frequency"].v, Zero)
    /\ Le(data["amplitude"].v, Zero)
    /\ responses[1].error = <<"Frequency must be positive">>

\* C4: the calls of a request are generate_configuration and then at most one
\* renderer, the one of the request's phenomenon, made only for a validated
\* request and only after generate_configuration has returned.
C4_Dispatch ==
    LET matching ==
            [plane_wave |-> "create_plane_wave_visualization",
             standing_wave |-> "create_standing_wave_visualization",
             reflection |-> "create_reflection_visualization",
             interference |-> "create_interference_visualization",
             doppler |-> "create_doppler_visualization",
             polarization |-> "create_polarization_visualization",
             dipole |-> "create_dipole_visualization",
             waveguide |-> "create_waveguide_visualization"]
    IN  \/ calls = <<>>
        \/ calls = <<"generate_configuration">>
        \/ /\ Len(calls) = 2
           /\ calls[1] = "generate_configuration"
           /\ config # None
           /\ Lt(Zero, data["frequency"].v) /\ Lt(Zero, data["amplitude"].v)
           /\ HasKey(matching, data["phenomenon"].v)
           /\ calls[2] = matching[data["phenomenon"].v]

C4_Witness ==
    /\ Done
    /\ calls = <<"generate_configuration", "create_standing_wave_visualization">>
    /\ data["phenomenon"].v = "standing_wave"
    /\ responses[1].success

\* C5: valid frequency and amplitude with a phenomenon outside the eight
\* names is answered success = false, 'Unknown phenomenon: <name>', and no
\* renderer is called.
C5_UnknownPhenomenon ==
    (/\ Done
     /\ data # None
     /\ HasKey(data, "frequency") /\ data["frequency"].t = "num"
     /\ HasKey(data, "amplitude") /\ data["amplitude"].t = "num"
     /\ Lt(Zero, data["frequency"].v) /\ Lt(Zero, data["amplitude"].v)
     /\ HasKey(data, "phenomenon")
     /\ data["phenomenon"].v \notin
            {"plane_wave", "standing_wave", "reflection", "interference",
             "doppler", "polarization", "dipole", "waveguide"}) =>
        /\ responses = <<[success |-> FALSE,
                          error |-> <<"Unknown phenomenon: ", data["phenomenon"].v>>]>>
        /\ calls = <<"generate_configuration">>

C5_Witness ==
    /\ Done
    /\ data # None
    /\ HasKey(data, "phenomenon")
    /\ data["phenomenon"].v = "diffraction"
    /\ responses = <<[success |-> FALSE,
                      error |-> <<"Unknown phenomenon: ", "diffraction">>]>>

\* C6: a request is answered as the same request was answered before,
\* whatever was handled in between.
C6_Stateless ==
    (Done /\ memo # None /\ memo.body = body) => responses = memo.responses

\* the request was answered with a configuration, a later request left a
\* figure open, and the request is answered again
C6_Witness ==
    /\ Done
    /\ memo # None
    /\ memo.body = body
    /\ memo.figures < open_figures
    /\ responses # <<>>
    /\ responses[1].success
    /\ responses = memo.responses

(***************************************************************************)
(* Properties of the formulas, checked under SpecPhysics.                  *)
(***************************************************************************)
\* C7: for frequency f > 0 the wave section has wavelength = c / f,
\* period = 1 / f, angular_frequency = 2 pi f, wave_number = 2 pi / wavelength,
\* hence wavelength * f = c, period * f = 1, angular_frequency = wave_number * c.
C7_WaveRelations ==
    pc = "render" =>
        LET w == config.physics.wave
            f == data["frequency"].v
            c == SPEED_OF_LIGHT
            twoPi == Mul(Num(2), Pi)
        IN  /\ Lt(Zero, f)
            /\ Eq(w.frequency, f)
            /\ Eq(w.wavelength, Div(c, f))
            /\ Eq(w.period, Div(One, f))
            /\ Eq(w.angular_frequency, Mul(twoPi, f))
            /\ Eq(w.wave_number, Div(twoPi, w.wavelength))
            /\ Eq(Mul(w.wavelength, f), c)
            /\ Eq(Mul(w.period, f), One)
            /\ Eq(w.angular_frequency, Mul(w.wave_number, c))

\* 2 GHz: the wavelength is 0.149896229 m and the period 0.5 ns
C7_Witness ==
    /\ pc = "render"
    /\ Eq(data["frequency"].v, Mul(Num(2), GHz))
    /\ Eq(config.physics.wave.wavelength, Frac(149896229, 1000000000))
    /\ Eq(config.physics.wave.period, Div(Frac(1, 2), GHz))

\* C8: the refractive index of each medium of a reflection request equals,
\* to three decimals, the index its option of the selector shows:
\* Air 1.000, Water 1.333, Glass 1.500, Diamond 2.417.
C8_AdvertisedIndex ==
    (pc = "render" /\ config.phenomenon = "reflection") =>
        \A i \in 1..2 :
            LET m == config.physics.media[i]
            IN  Lt(AbsReal(Sub(m.refractive_index, Frac(AdvertisedIndex[m.name], 1000))),
                   Frac(1, 2000))

\* C9: total_internal_reflection is true exactly when n1 sin(theta_i) > n2,
\* never when n1 <= n2; when true the config has critical_angle_deg, the
\* coefficients r_te = r_tm = R_te = R_tm = 1 and no transmitted angle; when
\* false it has transmitted_angle_deg/rad, the six coefficients and no
\* critical angle.
C9_TotalInternalReflection ==
    (pc = "render" /\ config.phenomenon = "reflection") =>
        LET p == config.physics
            n1 == p.media[1].refractive_index
            n2 == p.media[2].refractive_index
            tir == p.total_internal_reflection
            coefficients == p.fresnel_coefficients
        IN  /\ tir <=> Lt(n2, Mul(n1, NpSin(p.incident_angle_rad)))
            /\ Le(n1, n2) => ~tir
            /\ tir =>
               /\ "critical_angle_deg" \in DOMAIN p
               /\ {"transmitted_angle_deg", "transmitted_angle_rad"} \cap DOMAIN p = {}
               /\ {"r_te", "r_tm", "R_te", "R_tm"} \subseteq DOMAIN coefficients
               /\ \A k \in {"r_te", "r_tm", "R_te", "R_tm"} : Eq(coefficients[k], One)
            /\ ~tir =>
               /\ {"transmitted_angle_deg", "transmitted_angle_rad"} \subseteq DOMAIN p
               /\ "critical_angle_deg" \notin DOMAIN p
               /\ DOMAIN coefficients = {"r_te", "t_te", "r_tm", "t_tm", "R_te", "T_te"}

\* glass to air at 42 degrees, just beyond the critical angle of 41.8
C9_Witness ==
    /\ pc = "render"
    /\ config.phenomenon = "reflection"
    /\ config.physics.media[1].name = "Glass"
    /\ config.physics.media[2].name = "Air"
    /\ Eq(config.physics.incident_angle_deg, Num(42))
    /\ config.physics.total_internal_reflection
    /\ Eq(config.physics.critical_angle_deg, Num(41))

\* C10: without total internal reflection R_te + T_te = 1, with
\* R_te = r_te^2 and T_te = (n2 cos(theta_t)) / (n1 cos(theta_i)) * t_te^2.
C10_PowerConservation ==
    (/\ pc = "render"
     /\ config.phenomenon = "reflection"
     /\ ~config.physics.total_internal_reflection) =>
        LET p == config.physics
            n1 == p.media[1].refractive_index
            n2 == p.media[2].refractive_index
            cos_theta_i == NpCos(p.incident_angle_rad)
            cos_theta_t == NpCos(p.transmitted_angle_rad)
            k == p.fresnel_coefficients
        IN  /\ Eq(Add(k.R_te, k.T_te), One)
            /\ Eq(k.R_te, Mul(k.r_te, k.r_te))
            /\ Eq(k.T_te, Mul(Div(Mul(n2, cos_theta_t), Mul(n1, cos_theta_i)),
                              Mul(k.t_te, k.t_te)))

\* air to glass at grazing incidence: nearly all power is reflected
C10_Witness ==
    /\ pc = "render"
    /\ config.phenomenon = "reflection"
    /\ config.physics.media[1].name = "Air"
    /\ config.physics.media[2].name = "Glass"
    /\ Eq(config.physics.incident_angle_deg, Num(90))
    /\ ~config.physics.total_internal_reflection
    /\ Lt(Zero, config.physics.fresnel_coefficients.T_te)
    /\ Lt(config.physics.fresnel_coefficients.T_te, Frac(1, 1000))

(***************************************************************************)
(* Properties of the forms, checked under SpecControls.                    *)
(***************************************************************************)
\* C11: the doppler section of a Doppler request with velocity v has
\* observed_frequency, frequency_shift and relative_shift exactly when
\* |v| < c; when |v| >= c it has only source_velocity and the error
\* 'Velocity cannot exceed speed of light', the renderer draws the error
\* message instead of the wave comparison, and the response is a success.
C11_DopplerLimit ==
    (Done /\ data # None /\ HasKey(data, "phenomenon")
          /\ data["phenomenon"].v = "doppler") =>
        LET v == Get(data, "velocity", JNum(Zero)).v
            doppler == config.physics.doppler
            image == responses[1].image
        IN  /\ responses[1].success
            /\ Eq(doppler.source_velocity, v)
            /\ IF Lt(AbsReal(v), SPEED_OF_LIGHT)
               THEN /\ DOMAIN doppler =
                           {"source_velocity", "beta", "observed_frequency",
                            "frequency_shift", "relative_shift"}
                    /\ image[3] = "Wave Comparison"
               ELSE /\ DOMAIN doppler = {"source_velocity", "error"}
                    /\ doppler.error = "Velocity cannot exceed speed of light"
                    /\ image = <<"image/png;base64", "create_doppler_visualization",
                                 "Error: Velocity cannot equal or exceed speed of light!">>

\* a source at exactly the speed of light: the error is reported and drawn
C11_Witness ==
    /\ Done
    /\ data # None
    /\ HasKey(data, "velocity")
    /\ Eq(data["velocity"].v, SPEED_OF_LIGHT)
    /\ responses[1].success
    /\ "error" \in DOMAIN responses[1].config.physics.doppler
    /\ Len(responses[1].image) = 3

C13_ShiftLabel ==
    (/\ Done
     /\ responses # <<>>
     /\ responses[1].success
     /\ responses[1].config.phenomenon = "doppler"
     /\ Len(responses[1].image) = 4) =>
        LET shift_type == responses[1].image[4]
            source == responses[1].config.physics.wave.frequency
            observed == responses[1].config.physics.doppler.observed_frequency
        IN  /\ shift_type \in {"Blue shift", "Red shift"}
            /\ shift_type = "Blue shift" => Lt(source, observed)
            /\ shift_type = "Red shift" => Lt(observed, source)

\* C14: for every width and height of the sliders the cutoff frequency
\* computed for TE10 is the lowest of the cutoff frequencies computed for the
\* modes TE10, TE20, TE01, TE11 and TM11.
C14_DominantMode ==
    (pc = "render" /\ config.phenomenon = "waveguide") =>
        Le(CutoffFrequency(1, 0, config.physics.waveguide.width,
                           config.physics.waveguide.height),
           config.physics.waveguide.cutoff_frequency)

\* C15: the reported cutoff frequency is (c / 2) * sqrt((m / a)^2 + (n / b)^2)
\* with m and n the third and fourth characters of the mode read as decimal
\* digits; for TE10 it is c / (2 a), whatever b.
C15_CutoffFrequency ==
    (pc = "render" /\ config.phenomenon = "waveguide") =>
        LET a == data["guide_width"].v
            b == data["guide_height"].v
            mode == data["mode"].v
            m == Num(DigitValue[mode[3]])
            n == Num(DigitValue[mode[4]])
            half_c == Div(SPEED_OF_LIGHT, Num(2))
            fc == config.physics.waveguide.cutoff_frequency
        IN  /\ Eq(fc, Mul(half_c, Sqrt(Add(Square(Div(m, a)), Square(Div(n, b))))))
            /\ mode = <<"T", "E", "1", "0">> =>
                   /\ Eq(fc, Mul(half_c, Sqrt(Square(Div(One, a)))))
                   /\ Le(AbsReal(Sub(fc, Div(half_c, a))),
                         Mul(half_c, Frac(1, 2 * FixedScale)))

\* the standard guide of 23 mm by 10 mm: TE10 is cut off at 6.517 GHz
C15_Witness ==
    /\ pc = "render"
    /\ config.phenomenon = "waveguide"
    /\ config.physics.waveguide.mode = <<"T", "E", "1", "0">>
    /\ Eq(config.physics.waveguide.width, Frac(23, 1000))
    /\ Eq(config.physics.waveguide.height, Frac(10, 1000))
    /\ Lt(Mul(Frac(6517, 1000), GHz), config.physics.waveguide.cutoff_frequency)
    /\ Lt(config.physics.waveguide.cutoff_frequency, Mul(Frac(6518, 1000), GHz))

\* the resistance the law gives for a dipole of L wavelengths
RadiationResistanceLaw(L) ==
    IF Le(L, Frac(1, 10)) THEN Mul(Num(20), Square(Mul(Pi, L)))
    ELSE IF Lt(AbsReal(Sub(L, Frac(5, 10))), Frac(1, 100)) THEN Frac(7313, 100)
    ELSE Mul(Num(80), Square(Mul(Pi, L)))

\* x and y are the same quantity to one part in 10^9
Close(x, y) ==
    /\ SameUnit(x, y)
    /\ Le(AbsReal(Sub(x, y)), Mul(AbsReal(y), Frac(1, 1000000000)))

\* C16: the radiation resistance of the dipole is a function of its length L
\* in wavelengths alone: 20 (pi L)^2 when L <= 0.1, 73.13 when
\* |L - 0.5| < 0.01 and 80 (pi L)^2 otherwise, whatever the frequency.
C16_RadiationResistance ==
    (pc = "render" /\ config.phenomenon = "dipole") =>
        Close(config.physics.dipole.radiation_resistance,
              RadiationResistanceLaw(Get(data, "dipole_length", JNum(Frac(5, 10))).v))

(***************************************************************************)
(* The figures of pyplot, checked under Spec.                              *)
(***************************************************************************)
\* C17: when a request has been answered, with success or with the error of a
\* renderer that raised after it created its figure, no figure is left open:
\* after any sequence of requests as many figures are open as before it, none.
C17_FiguresClosed == Done => open_figures = 0

(***************************************************************************)
(* The sections of the report, checked under SpecPhysics.                  *)
(***************************************************************************)
\* the entries every report has
CommonSections == {"wave", "constants"}

\* the sections named after their phenomenon
OwnSections == {"doppler", "dipole", "waveguide"}

\* the entries the reflection branch can add
ReflectionEntries ==
    {"media", "incident_angle_deg", "incident_angle_rad", "transmitted_angle_deg",
     "transmitted_angle_rad", "total_internal_reflection", "critical_angle_deg",
     "fresnel_coefficients"}

\* C18: the report of a successful response names the phenomenon of the
\* request; its physics always has 'wave' and 'constants'; the media, the
\* incident angle and the Fresnel coefficients are added for reflection and
\* only for it, the sections doppler, dipole and waveguide each for its own
\* phenomenon and only for it, and nothing else is ever added: for plane_wave,
\* standing_wave, interference and polarization the physics is exactly 'wave'
\* and 'constants', whatever parameters the request carries.
C18_ReportSections ==
    (Done /\ responses # <<>> /\ responses[1].success) =>
        LET report == responses[1].config
            phenomenon == data["phenomenon"].v
            entries == DOMAIN report.physics
        IN  /\ report.phenomenon = phenomenon
            /\ CommonSections \subseteq entries
            /\ entries \subseteq CommonSections \cup OwnSections \cup ReflectionEntries
            /\ \A section \in OwnSections : section \in entries <=> phenomenon = section
            /\ phenomenon = "reflection" =>
                   {"media", "incident_angle_deg", "fresnel_coefficients"} \subseteq entries
            /\ phenomenon # "reflection" => entries \cap ReflectionEntries = {}
            /\ phenomenon \in {"plane_wave", "standing_wave", "interference",
                               "polarization"} => entries = CommonSections

\* a request for interference that carries sources and separation is answered
\* with a report of 'wave' and 'constants' alone
C18_Witness ==
    /\ Done
    /\ responses # <<>>
    /\ responses[1].success
    /\ data["phenomenon"].v = "interference"
    /\ HasKey(data, "sources")
    /\ HasKey(data, "separation")
    /\ responses[1].config.phenomenon = "interference"
    /\ DOMAIN responses[1].config.physics = CommonSections

====
